---- MODULE Spec2Model ----
(***************************************************************************)
(* A model of src/bot_main.py: the chat-command interpreter of the         *)
(* dfrpg2024 discord bot.                                                   *)
(*                                                                         *)
(*  - texts are TLA+ strings; a character is a string of length 1          *)
(*  - the command registry (CommandRegistrar.commands) is the sequence     *)
(*    Commands, in registration order, each entry one compiled regex       *)
(*  - the session maps are functions whose DOMAIN is the set of keys of    *)
(*    the python dict                                                      *)
(*  - a handler runs atomically from one `await ...send(...)` to the next; *)
(*    the backend calls (requests.get / requests.post) are synchronous and *)
(*    do not yield to the event loop                                       *)
(***************************************************************************)
EXTENDS Integers, Sequences, FiniteSets, TLC

(***************************************************************************)
(* Bounds of the model.                                                    *)
(***************************************************************************)
\* messages dispatched in one behaviour of the targeting and claiming commands
MaxMessages == 2
\* messages dispatched in one behaviour of claiming and giving up characters
MaxClaimMessages == 3
\* messages dispatched in one behaviour of the two users' session
MaxFrameMessages == 3
\* messages dispatched in one behaviour of the fate point commands
MaxFateMessages == 3
\* messages dispatched in one behaviour of the rolling commands
MaxRollMessages == 3
\* handlers suspended on a send at the same time
MaxInFlight == 2
\* depth at which the interpreter raises RecursionError (python: 1000)
RecursionLimit == 3

(***************************************************************************)
(* Characters and strings.                                                 *)
(***************************************************************************)
\* python None (no text of the model contains '<')
None == "<None>"

Ch(s, i) == SubSeq(s, i, i)

LowerAlpha == "abcdefghijklmnopqrstuvwxyz"
UpperAlpha == "ABCDEFGHIJKLMNOPQRSTUVWXYZ"
DigitChars == "0123456789"

CharsOf(s) == { Ch(s, i) : i \in 1..Len(s) }

Digits == CharsOf(DigitChars)
\* re: \w
WordChars == CharsOf(LowerAlpha) \cup CharsOf(UpperAlpha) \cup Digits \cup {"_"}
\* re: \s
SpaceChars == {" "}

UpperChars == CharsOf(UpperAlpha)

LowerTable ==
    [c \in UpperChars |-> Ch(LowerAlpha, CHOOSE i \in 1..26 : Ch(UpperAlpha, i) = c)]

\* str.lower() of one character
LowerCh(c) == IF c \in UpperChars THEN LowerTable[c] ELSE c

RECURSIVE LowerFrom(_, _)
LowerFrom(s, i) ==
    IF i > Len(s) THEN "" ELSE LowerCh(Ch(s, i)) \o LowerFrom(s, i + 1)

\* str.lower()
Lower(s) == LowerFrom(s, 1)

\* str.startswith
StartsWith(s, p) == Len(p) <= Len(s) /\ SubSeq(s, 1, Len(p)) = p

\* s[i:] with i counted from 0
Drop(s, n) == SubSeq(s, n + 1, Len(s))

\* the length of the longest run of characters of `set` in s that starts at
\* position i (1-based): what a greedy X+ or X* consumes
RECURSIVE Run(_, _, _)
Run(s, i, set) ==
    IF i <= Len(s) /\ Ch(s, i) \in set THEN 1 + Run(s, i + 1, set) ELSE 0

\* int() of a string of decimal digits
RECURSIVE IntOfFrom(_, _, _)
IntOfFrom(s, i, acc) ==
    IF i > Len(s) THEN acc
    ELSE IntOfFrom(s, i + 1,
             10 * acc + ((CHOOSE d \in 1..10 : Ch(DigitChars, d) = Ch(s, i)) - 1))

IntOf(s) == IntOfFrom(s, 1, 0)

\* dict | {k: v}
Put(d, k, v) == [x \in DOMAIN d \cup {k} |-> IF x = k THEN v ELSE d[x]]

\* dict.pop(k)
Pop(d, k) == [x \in DOMAIN d \ {k} |-> d[x]]

\* python truthiness of an optional string or JSON boolean (a boolean is
\* written "true" or "false")
Truthy(v) == v \notin {None, "", "false"}

(***************************************************************************)
(* The argument-shape patterns (`rest`) given to cmds.register, by their   *)
(* regex source, and how each matches the text r that follows the alias.   *)
(* A match is [ok, len, groups]: whether the pattern matches at the start  *)
(* of r, the number of characters it consumes, and its groupdict().        *)
(***************************************************************************)
R_none        == ""
R_entity      == "\\s+(?P<entity>\\w+)"
R_opt_entity  == "(\\s+(?P<entity>\\w+))?"
R_opt_amount  == "(\\s+(?P<amount>\\d+))?"
R_aspect      == "(?P<maybe_aspect>.+)"
R_cons_any    == "\\s+(?P<max_cons>.+)"
R_cons_word   == "\\s+(?P<max_cons>\\S+)"
R_box_track   == "\\s+((?P<box>\\d+)\\s+((?P<track>\\w+)))"
R_track_box   == "\\s+(((?P<track>\\w+))\\s+(?P<box>\\d+))"
R_amt_track   == "\\s+((?P<amount>\\d+)\\s+((?P<track>\\w+)))"
R_track_amt   == "\\s+(((?P<track>\\w+))\\s+(?P<amount>\\d+))"
R_box_x_track == "\\s+((?P<box>\\d+).*((?P<track>\\w+)))"
R_track_x_box == "\\s+(((?P<track>\\w+)).*(?P<box>\\d+))"
R_b_opt_entity == "\\b(\\s+(?P<entity>\\w+))?"
R_opt_bonuses == "(\\s+(?P<maybe_bonuses>.*))?"
R_props       == "\\s+(?P<props>.*)"
R_opt_command == "(\\s+(?P<command>.+))?"

NoMatch == [ok |-> FALSE, len |-> 0, groups |-> <<>>]
Matched(n, g) == [ok |-> TRUE, len |-> n, groups |-> g]

\* the characters a regex class consumes: \S is everything but \s
AnyChars == WordChars \cup SpaceChars \cup
            {"@", "+", "-", "#", "!", "?", "(", ")", ".", ":", ","}
NonSpace == AnyChars \ SpaceChars

\* \s+(?P<g>X+) for a class X that excludes \s
WsClass(r, g, cls) ==
    LET k == Run(r, 1, SpaceChars)
        w == Run(r, k + 1, cls)
    IN  IF k >= 1 /\ w >= 1
        THEN Matched(k + w, (g :> SubSeq(r, k + 1, k + w)))
        ELSE NoMatch

\* (P)? : P when it matches, else the empty match with its groups None
Optional(m, g) == IF m.ok THEN m ELSE Matched(0, (g :> None))

\* \s+(?P<g>.+) : the greedy \s+ gives one space back when nothing follows
WsAny(r, g) ==
    LET k == Run(r, 1, SpaceChars)
    IN  IF k >= 1 /\ Len(r) >= 2
        THEN Matched(Len(r), (g :> IF k < Len(r) THEN Drop(r, k) ELSE " "))
        ELSE NoMatch

\* \s+(?P<g>.*)
WsRest(r, g) ==
    LET k == Run(r, 1, SpaceChars)
    IN  IF k >= 1 THEN Matched(Len(r), (g :> Drop(r, k))) ELSE NoMatch

\* \s+((?P<a>A+)\s+((?P<b>B+))) for classes A, B that exclude \s
TwoFields(r, a, clsA, b, clsB) ==
    LET k  == Run(r, 1, SpaceChars)
        n  == Run(r, k + 1, clsA)
        k2 == Run(r, k + n + 1, SpaceChars)
        m  == Run(r, k + n + k2 + 1, clsB)
    IN  IF k >= 1 /\ n >= 1 /\ k2 >= 1 /\ m >= 1
        THEN Matched(k + n + k2 + m,
                     (a :> SubSeq(r, k + 1, k + n)) @@
                     (b :> SubSeq(r, k + n + k2 + 1, k + n + k2 + m)))
        ELSE NoMatch

\* the last position of r, after position `from`, holding a character of cls
\* (0 when there is none): where a greedy .* followed by X+ lets X+ start
LastIn(r, from, cls) ==
    LET ps == { p \in (from + 1)..Len(r) : Ch(r, p) \in cls }
    IN  IF ps = {} THEN 0 ELSE CHOOSE p \in ps : \A q \in ps : q <= p

\* \s+((?P<a>A+).*((?P<b>B+))) : A+ is greedy and gives characters back only
\* when no character of B follows it
FieldGapField(r, a, clsA, b, clsB) ==
    LET k == Run(r, 1, SpaceChars)
        n == Run(r, k + 1, clsA)
        p == LastIn(r, k + 1, clsB)
        n2 == IF p > k + n THEN n ELSE p - k - 1
    IN  IF k >= 1 /\ n >= 1 /\ p > k + 1
        THEN Matched(p, (a :> SubSeq(r, k + 1, k + n2)) @@ (b :> Ch(r, p)))
        ELSE NoMatch

\* re.match of one `rest` pattern at the start of r; `prev` is the character
\* before r (the last character of the alias), which \b looks at
RestMatch(rest, r, prev) ==
    CASE rest = R_none        -> Matched(0, <<>>)
      [] rest = R_entity      -> WsClass(r, "entity", WordChars)
      [] rest = R_opt_entity  -> Optional(WsClass(r, "entity", WordChars), "entity")
      [] rest = R_opt_amount  -> Optional(WsClass(r, "amount", Digits), "amount")
      [] rest = R_aspect      ->
           IF Len(r) >= 1 THEN Matched(Len(r), ("maybe_aspect" :> r)) ELSE NoMatch
      [] rest = R_cons_any    -> WsAny(r, "max_cons")
      [] rest = R_cons_word   -> WsClass(r, "max_cons", NonSpace)
      [] rest = R_box_track   -> TwoFields(r, "box", Digits, "track", WordChars)
      [] rest = R_track_box   -> TwoFields(r, "track", WordChars, "box", Digits)
      [] rest = R_amt_track   -> TwoFields(r, "amount", Digits, "track", WordChars)
      [] rest = R_track_amt   -> TwoFields(r, "track", WordChars, "amount", Digits)
      [] rest = R_box_x_track -> FieldGapField(r, "box", Digits, "track", WordChars)
      [] rest = R_track_x_box -> FieldGapField(r, "track", WordChars, "box", Digits)
      [] rest = R_b_opt_entity ->
           IF (prev \in WordChars) # (Len(r) >= 1 /\ Ch(r, 1) \in WordChars)
           THEN Optional(WsClass(r, "entity", WordChars), "entity")
           ELSE NoMatch
      [] rest = R_opt_bonuses -> Optional(WsRest(r, "maybe_bonuses"), "maybe_bonuses")
      [] rest = R_props       -> WsRest(r, "props")
      [] rest = R_opt_command -> Optional(WsAny(r, "command"), "command")

(***************************************************************************)
(* The registry: cmds.commands after the module is loaded, one entry per   *)
(* compiled regex alias_regex + rest, in registration (dict insertion)     *)
(* order.  func names the registered coroutine.                            *)
(***************************************************************************)
Cmd(a, r, f) == [aliases |-> a, rest |-> r, func |-> f]

Commands == <<
    Cmd(<<"test">>, R_none, "_test"),
    Cmd(<<"claim", "c", "assume">>, R_entity, "_claim"),
    Cmd(<<"unclaim", "unassume">>, R_none, "_unclaim"),
    Cmd(<<"claimed", "assumed">>, R_none, "_claimed"),
    Cmd(<<"info">>, R_opt_entity, "_info"),
    Cmd(<<"summary">>, R_none, "_summary"),
    Cmd(<<"entities">>, R_none, "_entities"),
    Cmd(<<"increment_fp", "fp+">>, R_opt_amount, "_increment_fp"),
    Cmd(<<"decrement_fp", "fp-">>, R_opt_amount, "_decrement_fp"),
    Cmd(<<"add_aspect", "aspect+", "a+">>, R_aspect, "_add_aspect"),
    Cmd(<<"remove_aspect", "aspect-", "a-">>, R_aspect, "_remove_aspect"),
    Cmd(<<"tag_aspect", "tag">>, R_aspect, "_tag_aspect"),
    Cmd(<<"clear_all_temporary_aspects", "clear_temporary_aspects",
          "aspect#", "a#">>, R_none, "_clear_all_temporary_aspects"),
    Cmd(<<"recover_all", "cons#">>, R_cons_any, "_recover_all"),
    Cmd(<<"recover", "rec">>, R_cons_word, "_recover"),
    Cmd(<<"inflict_stress", "stress+", "s+">>, R_box_track, "_inflict_stress"),
    Cmd(<<"inflict_stress", "stress+", "s+">>, R_track_box, "_inflict_stress"),
    Cmd(<<"absorb_stress", "stress!", "s!">>, R_amt_track, "_absorb_stress"),
    Cmd(<<"absorb_stress", "stress!", "s!">>, R_track_amt, "_absorb_stress"),
    Cmd(<<"clear_stress", "stress-", "s-">>, R_box_x_track, "_clear_stress"),
    Cmd(<<"clear_stress", "stress-", "s-">>, R_track_x_box, "_clear_stress"),
    Cmd(<<"clear_all_stress", "stress#", "s#">>, R_none, "_clear_all_stress"),
    Cmd(<<"target">>, R_b_opt_entity, "_target"),
    Cmd(<<"roll">>, R_opt_bonuses, "_roll"),
    Cmd(<<"amend">>, R_opt_bonuses, "_amend"),
    Cmd(<<"order_add", "order", "ord", "order+", "ord+">>, R_opt_bonuses,
        "_order_add"),
    Cmd(<<"order_next", "next">>, R_none, "_order_next"),
    Cmd(<<"order_back", "back", "previous", "prev">>, R_none, "_order_back"),
    Cmd(<<"order_start", "start">>, R_none, "_order_start"),
    Cmd(<<"order_clear", "order#", "stop">>, R_none, "_order_clear"),
    Cmd(<<"order_drop", "drop", "remove", "order-">>, R_none, "_order_drop"),
    Cmd(<<"order_defer", "defer">>, R_none, "_order_defer"),
    Cmd(<<"order_undefer", "undefer", "act">>, R_none, "_order_undefer"),
    Cmd(<<"order_list", "order_show", "order?">>, R_none, "_order_list"),
    Cmd(<<"create_entity", "entity+", "e+">>, R_props, "_create_entity"),
    Cmd(<<"edit_entity", "edit", "e!">>, R_props, "_edit_entity"),
    Cmd(<<"remove_entity", "entity-", "e-">>, R_opt_entity, "_remove_entity"),
    Cmd(<<"targeting">>, R_none, "_targeting"),
    Cmd(<<"help">>, R_opt_command, "_help")
>>

\* the handlers decorated with @targeted
TargetedFuncs == {
    "_info", "_increment_fp", "_decrement_fp", "_add_aspect", "_remove_aspect",
    "_tag_aspect", "_recover", "_inflict_stress", "_absorb_stress",
    "_clear_stress", "_target", "_order_add", "_order_drop", "_order_undefer",
    "_edit_entity", "_remove_entity" }

\* re.search(alias_regex + rest, text): the regex is anchored by ^[.] and
\* the alternation (a1|a2|...) takes the first alias, in the order given,
\* after which the rest of the regex matches
AliasTryAnyCase(c, text, a) ==
    IF StartsWith(Lower(text), "." \o Lower(a))
    THEN RestMatch(c.rest, Drop(text, 1 + Len(a)), Ch(a, Len(a)))
    ELSE NoMatch

AliasTry(c, text, a) ==
    IF StartsWith(text, "." \o a)
    THEN RestMatch(c.rest, Drop(text, 1 + Len(a)), Ch(a, Len(a)))
    ELSE NoMatch

NoPattern == [ok |-> FALSE, span |-> 0, groups |-> <<>>, alias |-> None]

RECURSIVE AliasesFrom(_, _, _)

\* the outcome m of trying the i-th alias: the match, or the next alias
AliasStep(c, text, i, m) ==
    IF m.ok
    THEN [ok |-> TRUE, span |-> 1 + Len(c.aliases[i]) + m.len,
          groups |-> m.groups, alias |-> c.aliases[i]]
    ELSE AliasesFrom(c, text, i + 1)

AliasesFrom(c, text, i) ==
    IF i > Len(c.aliases) THEN NoPattern
    ELSE AliasStep(c, text, i, AliasTry(c, text, c.aliases[i]))

\* the match object of one registered regex: [ok, span, groups, alias], span
\* being right - left of match.span()
PatternMatch(c, text) == AliasesFrom(c, text, 1)

\* max(found, key=_match_size): is the match m a new maximum after `best`?
\* python's max keeps the first of several maximal items
LargerOrEqual(m, best) == m.span >= best.span

Larger(m, best) == m.span > best.span

RECURSIVE MaxBySize(_, _, _)

\* one iteration over cmds.commands.items(): m is the i-th regex's match
MaxStep(text, i, best, m) ==
    IF m.ok /\ (best.regex = 0 \/ Larger(m, best))
    THEN MaxBySize(text, i + 1,
                   [regex |-> i, span |-> m.span, groups |-> m.groups])
    ELSE MaxBySize(text, i + 1, best)

MaxBySize(text, i, best) ==
    IF i > Len(Commands) THEN best
    ELSE MaxStep(text, i, best, PatternMatch(Commands[i], text))

\* what longest_match returns for the winner `best` of the scan: regex is the
\* index of the winning pattern in Commands, 0 for python's None
MatchResult(best) ==
    IF best.regex = 0
    THEN [regex |-> 0, func |-> "fallback", kwargs |-> <<>>]
    ELSE [regex |-> best.regex, func |-> Commands[best.regex].func,
          kwargs |-> best.groups]

\* CommandRegistrar.longest_match(text, fallback)
longest_match(text) ==
    MatchResult(MaxBySize(text, 1, [regex |-> 0, span |-> 0, groups |-> <<>>]))

(***************************************************************************)
(* The environment: the chat users, the backend's answers, the dice.       *)
(***************************************************************************)
\* message.author: the display name keys the session maps
Author(dn, mention) == [display_name |-> dn, mention |-> mention]
Med == Author("med", "@1")
Gm  == Author("gm (Mook)", "@2")
Kay == Author("kay", "@3")
Authors == {Med, Gm}

\* the entity identifiers of the backend's game, in the order of its JSON object
Roster == <<"Weft", "Mook">>

\* what GET /game answers: ok with the roster, ok: false, or no answer at all
GameOk    == [status |-> "ok", entities |-> Roster]
GameNotOk == [status |-> "notok", entities |-> <<>>]
GameDown  == [status |-> "down", entities |-> <<>>]
GameReplies == {GameOk, GameNotOk, GameDown}

\* what POST /commands answers: {"ok": true, "result": {"ok": true, ...}},
\* ok: false at the outer level (no "result"), ok: false in the nested
\* result, or a transport failure (raise_for_status raises)
Reply(status, rok, rdesc, desc) ==
    [status |-> status, result_ok |-> rok, result_description |-> rdesc,
     description |-> desc]
PostOk            == Reply("ok", "true", None, None)
PostRejected      == Reply("ok", None, None, "unknown entity")
PostInnerRejected == Reply("ok", "false", "not enough fate", None)
PostDown          == Reply("down", None, None, None)
PostReplies == {PostOk, PostRejected, PostInnerRejected, PostDown}

\* random.choices([-1, 0, 1], k=4): the outcomes the model draws from
DiceOutcomes == { <<1, 0, -1, 0>>, <<1, 1, 1, 1>>, <<-1, -1, 0, -1>> }

(***************************************************************************)
(* Values.  A function result that may raise is [exc, val]: exc is None or *)
(* the name of the exception.  An observable step of a handler is an event *)
(* [ev, kind, data].                                                       *)
(***************************************************************************)
Ok(v)    == [exc |-> None, val |-> v]
Exc(e)   == [exc |-> e, val |-> <<>>]

Call(func, msg, kw) == [ev |-> "call", kind |-> func,
                        data |-> [content |-> msg.content, kwargs |-> kw,
                                  author |-> msg.author.display_name]]
Get(status)         == [ev |-> "get", kind |-> "/game", data |-> status]
Entities(found)     == [ev |-> "entities", kind |-> "resolved", data |-> found]
Post(body)          == [ev |-> "post", kind |-> body["command"], data |-> body]
\* what requests.post(...).json() returned to the handler that posted
Answer(res)         == [ev |-> "answer", kind |-> "/commands", data |-> res]
Send(kind, data)    == [ev |-> "send", kind |-> kind, data |-> data]
Raise(e)            == [ev |-> "raise", kind |-> e, data |-> <<>>]

\* a python str, or the re.Match object the resolver puts in its list
Str(s)      == [isstr |-> TRUE, v |-> s]
MatchObj(s) == [isstr |-> FALSE, v |-> s]

(***************************************************************************)
(* Backend access and the entity resolver.                                 *)
(***************************************************************************)
\* _get_game(): the game dict; {} (no "entities" key) when ok is false
_get_game(reply) ==
    CASE reply.status = "down"  -> Exc("ConnectionError")
      [] reply.status = "notok" -> Ok([status |-> "notok",
                                       has_entities |-> FALSE,
                                       entities |-> <<>>])
      [] reply.status = "ok"    -> Ok([status |-> "ok", has_entities |-> TRUE,
                                       entities |-> reply.entities])

\* {e.lower(): e for e in entities}.get(key): a later identifier with the
\* same lower-cased form replaces an earlier one
LowerMapHas(entities, key) ==
    \E i \in DOMAIN entities : Lower(entities[i]) = key

LowerMapGet(entities, key) ==
    LET hits == { i \in DOMAIN entities : Lower(entities[i]) = key }
    IN  entities[CHOOSE i \in hits : \A j \in hits : j <= i]

\* a lookup that passes over the identifier spelled exactly as the name
InsensitiveEntityOthers(game, name) ==
    IF ~game.has_entities THEN Exc("TypeError")
    ELSE IF ~name.isstr THEN Exc("AttributeError")
    ELSE IF LowerMapHas(SelectSeq(game.entities, LAMBDA e : e # name.v),
                        Lower(name.v))
         THEN Ok(LowerMapGet(SelectSeq(game.entities, LAMBDA e : e # name.v),
                             Lower(name.v)))
         ELSE Ok(name.v)

\* a lookup by the identifier as it is spelled
InsensitiveEntityExact(game, name) ==
    IF ~game.has_entities THEN Exc("TypeError")
    ELSE IF ~name.isstr THEN Exc("AttributeError")
    ELSE Ok(name.v)

\* _insensitive_entity(game, name): iterating get_in(["entities"], {}), which
\* is None, raises TypeError; name.lower() of a re.Match raises AttributeError
_insensitive_entity(game, name) ==
    IF ~game.has_entities THEN Exc("TypeError")
    ELSE IF ~name.isstr THEN Exc("AttributeError")
    ELSE IF LowerMapHas(game.entities, Lower(name.v))
         THEN Ok(LowerMapGet(game.entities, Lower(name.v)))
         ELSE Ok(name.v)

\* [m.group(1) for m in re.finditer(r'@\s*(\S+)', content)], scanning from
\* position i: a marker is '@', any spaces, then a run of non-space characters
RECURSIVE MarkersFrom(_, _)
MarkersFrom(s, i) ==
    IF i > Len(s) THEN <<>>
    ELSE IF Ch(s, i) = "@"
         THEN LET k == Run(s, i + 1, SpaceChars)
                  w == Run(s, i + 1 + k, NonSpace)
              IN  IF w >= 1
                  THEN <<SubSeq(s, i + 1 + k, i + k + w)>>
                           \o MarkersFrom(s, i + 1 + k + w)
                  ELSE MarkersFrom(s, i + 1)
         ELSE MarkersFrom(s, i + 1)

explicit_matches(content) == MarkersFrom(content, 1)

\* re.search(r'[(](\S+)[)]', display_name): None, or the match (leftmost
\* '(', then the longest run of non-space characters that ends before a ')')
ParenSpans(dn) ==
    { <<i, j>> \in (1..Len(dn)) \X (1..Len(dn)) :
        /\ Ch(dn, i) = "(" /\ Ch(dn, j) = ")" /\ j >= i + 2
        /\ \A k \in (i + 1)..(j - 1) : Ch(dn, k) \in NonSpace }

match_for_author_name(dn) ==
    IF ParenSpans(dn) = {} THEN None
    ELSE LET sp == CHOOSE x \in ParenSpans(dn) :
                     \A y \in ParenSpans(dn) :
                        x[1] < y[1] \/ (x[1] = y[1] /\ x[2] >= y[2])
         IN  SubSeq(dn, sp[1] + 1, sp[2] - 1)

\* the list `found` of entities_from_message
FoundCandidates(player_mapping_, msg) ==
    LET dn == msg.author.display_name
        ex == explicit_matches(msg.content)
    IN  IF ex # <<>> THEN [i \in DOMAIN ex |-> Str(ex[i])]
        ELSE IF dn \in DOMAIN player_mapping_ /\ Truthy(player_mapping_[dn])
             THEN <<Str(player_mapping_[dn])>>
        ELSE IF match_for_author_name(dn) # None
             THEN <<MatchObj(match_for_author_name(dn))>>
        ELSE <<>>

\* [_insensitive_entity(game, n) for n in found]: the first exception ends it
RECURSIVE CanonAll(_, _)

CanonCons(h, t) ==
    IF t.exc # None THEN Exc(t.exc) ELSE Ok(<<h.val>> \o t.val)

CanonStep(h, game, rest) ==
    IF h.exc # None THEN Exc(h.exc) ELSE CanonCons(h, CanonAll(game, rest))

CanonAll(game, found) ==
    IF found = <<>> THEN Ok(<<>>)
    ELSE CanonStep(_insensitive_entity(game, Head(found)), game, Tail(found))

\* the comprehension over `found`, given what _get_game() returned
CanonFound(g, found) ==
    IF g.exc # None THEN Exc(g.exc) ELSE CanonAll(g.val, found)

\* entities_from_message(message), given the answer of its GET /game
entities_from_message(player_mapping_, msg, reply) ==
    CanonFound(_get_game(reply), FoundCandidates(player_mapping_, msg))

(***************************************************************************)
(* Rolling: bonus tokens and the formatted dice.                           *)
(***************************************************************************)
\* [b.group(0) for b in re.finditer(r'[+-]\d+', s)], scanning from position i
RECURSIVE BonusTokensFrom(_, _)
BonusTokensFrom(s, i) ==
    IF i > Len(s) THEN <<>>
    ELSE LET d == Run(s, i + 1, Digits)
         IN  IF Ch(s, i) \in {"+", "-"} /\ d >= 1
             THEN <<SubSeq(s, i, i + d)>> \o BonusTokensFrom(s, i + d + 1)
             ELSE BonusTokensFrom(s, i + 1)

BonusTokens(s) == BonusTokensFrom(s, 1)

\* -int(b[1:]) if b.startswith("-") else int(b[1:])
BonusValue(b) == IF Ch(b, 1) = "-" THEN 0 - IntOf(Drop(b, 1)) ELSE IntOf(Drop(b, 1))

RECURSIVE SumSeq(_)
SumSeq(q) == IF q = <<>> THEN 0 ELSE Head(q) + SumSeq(Tail(q))

BonusSum(tokens) == SumSeq([i \in DOMAIN tokens |-> BonusValue(tokens[i])])

\* "[" + " ".join("+" / "-" / "0" per die) + "]"
RECURSIVE JoinFaces(_)
JoinFaces(r) ==
    IF r = <<>> THEN ""
    ELSE (IF Head(r) = 1 THEN "+" ELSE IF Head(r) = -1 THEN "-" ELSE "0")
         \o (IF Len(r) > 1 THEN " " ELSE "") \o JoinFaces(Tail(r))

roll_format(rolled) == "[" \o JoinFaces(rolled) \o "]"

\* maybe_bonuses or ""
OrEmpty(v) == IF v = None THEN "" ELSE v

\* the line roll and amend send: the mention, the dice, the base total, the
\* bonus tokens and the grand total
Display(mention, rolls_f, roll_v, bonuses, total) ==
    [mention |-> mention, rolls_f |-> rolls_f, roll_v |-> roll_v,
     bonuses |-> bonuses, total |-> total]

(***************************************************************************)
(* The handlers.  S is the session: the four module-level dicts.  A        *)
(* handler runs from its call to its first await of a send (every handler  *)
(* modelled here sends at most once, as its last statement), or to the     *)
(* exception it raises, and returns [S, evs, exc].                         *)
(***************************************************************************)
Ret(S, evs, exc) == [S |-> S, evs |-> evs, exc |-> exc]

Raised(S, evs, e) == Ret(S, evs \o <<Raise(e)>>, e)

\* a claim that records the entity and awaits the confirmation before it
\* records the author object, which it then never does
ClaimStoreEntityOnly(S, msg, entity_name) ==
    Ret([S EXCEPT
           !.player_mapping = Put(@, msg.author.display_name, entity_name)],
        <<Get("ok"), Send("now_playing", [author |-> msg.author.display_name,
                                    entity |-> entity_name])>>,
        None)

\* _claim, from the lookup on: the map entries and the confirmation
ClaimStore(S, msg, entity_name) ==
    Ret([S EXCEPT
           !.player_mapping = Put(@, msg.author.display_name, entity_name),
           !.player_object_mapping =
               Put(@, msg.author.display_name, msg.author)],
        <<Get("ok"), Send("now_playing", [author |-> msg.author.display_name,
                                    entity |-> entity_name])>>,
        None)

\* a lookup that keeps the name as it was typed
ClaimLookupTyped(S, msg, entity, g) ==
    IF g.exc # None THEN Raised(S, <<Get("down")>>, g.exc)
    ELSE IF ~g.val.has_entities THEN Raised(S, <<Get("notok")>>, "TypeError")
    ELSE IF ~LowerMapHas(g.val.entities, Lower(entity))
         THEN Ret(S, <<Get("ok"), Send("no_such_entity",
                                 [mention |-> msg.author.mention,
                                  entity |-> entity])>>, None)
         ELSE ClaimStore(S, msg, entity)

\* _claim, given what _get_game() returned: the dict comprehension over
\* get_in(["entities"], {}), which is None, raises TypeError
ClaimLookup(S, msg, entity, g) ==
    IF g.exc # None THEN Raised(S, <<Get("down")>>, g.exc)
    ELSE IF ~g.val.has_entities THEN Raised(S, <<Get("notok")>>, "TypeError")
    ELSE IF ~LowerMapHas(g.val.entities, Lower(entity))
         THEN Ret(S, <<Get("ok"), Send("no_such_entity",
                                 [mention |-> msg.author.mention,
                                  entity |-> entity])>>, None)
         ELSE ClaimStore(S, msg, LowerMapGet(g.val.entities, Lower(entity)))

_claim(S, msg, kw, env) == ClaimLookup(S, msg, kw["entity"], _get_game(env.game))

\* an unclaim that forgets the author object only
UnclaimObjectOnly(S, msg) ==
    IF msg.author.display_name \in DOMAIN S.player_mapping
    THEN Ret([S EXCEPT
                !.player_object_mapping = Pop(@, msg.author.display_name)],
             <<Send("no_longer_playing",
                    [author |-> msg.author.display_name,
                     entity |-> S.player_mapping[msg.author.display_name]])>>,
             None)
    ELSE Ret(S, <<Send("not_playing", msg.author.display_name)>>, None)

\* _unclaim
_unclaim(S, msg) ==
    IF msg.author.display_name \in DOMAIN S.player_mapping
    THEN Ret([S EXCEPT
                !.player_mapping = Pop(@, msg.author.display_name),
                !.player_object_mapping = Pop(@, msg.author.display_name)],
             <<Send("no_longer_playing",
                    [author |-> msg.author.display_name,
                     entity |-> S.player_mapping[msg.author.display_name]])>>,
             None)
    ELSE Ret(S, <<Send("not_playing", msg.author.display_name)>>, None)

\* _info, given what _get_game() returned: pretty_print_entity(None) raises
\* TypeError when the game has no such entity
InfoRender(S, entity, g) ==
    IF g.exc # None THEN Raised(S, <<Get("down")>>, g.exc)
    ELSE IF \E i \in DOMAIN g.val.entities : g.val.entities[i] = entity
         THEN Ret(S, <<Get(g.val.status), Send("entity", entity)>>, None)
         ELSE Raised(S, <<Get(g.val.status)>>, "TypeError")

_info(S, msg, kw, env) == InfoRender(S, kw["entity"], _get_game(env.game))

\* _issue_command(cmd): res.raise_for_status() raises on a failed request
_issue_command(reply) ==
    IF reply.status = "down" THEN Exc("HTTPError") ELSE Ok(reply)

\* a description read at the outer level only
AbortDescriptionOuter(response) == response.description

\* the description standard_abort hands to inline_abort
AbortDescription(response) ==
    IF Truthy(response.result_description)
    THEN response.result_description ELSE response.description

\* standard_abort(message, response) followed by the handler's rendering
AbortOrRender(S, msg, body, res) ==
    IF res.exc # None THEN Raised(S, <<Post(body)>>, res.exc)
    ELSE IF ~Truthy(res.val.result_ok)
         THEN Ret(S, <<Post(body), Answer(res.val),
                       Send("error", [mention |-> msg.author.mention,
                                      description |->
                                          AbortDescription(res.val)])>>, None)
         ELSE Ret(S, <<Post(body), Answer(res.val),
                       Send("entity", body["entity"])>>, None)

\* an increment that fills in the amount nobody typed
IncrementFpByOne(S, msg, kw, env) ==
    AbortOrRender(S, msg,
                  [command |-> "increment_fp", entity |-> kw["entity"],
                   amount |-> IF kw["amount"] = None THEN "1"
                              ELSE kw["amount"]],
                  _issue_command(env.post))

\* _increment_fp
_increment_fp(S, msg, kw, env) ==
    AbortOrRender(S, msg,
                  [command |-> "increment_fp", entity |-> kw["entity"],
                   amount |-> kw["amount"]],
                  _issue_command(env.post))

\* a record whose bonus value adds up the magnitudes of the tokens
RollRecordUnsigned(rolled, bonuses) ==
    [rolls_f |-> roll_format(rolled), roll_v |-> SumSeq(rolled),
     bonuses |-> bonuses,
     bonus_v |-> SumSeq([i \in DOMAIN bonuses |-> IntOf(Drop(bonuses[i], 1))]),
     total |-> SumSeq(rolled)
                 + SumSeq([i \in DOMAIN bonuses |-> IntOf(Drop(bonuses[i], 1))])]

\* the dict _roll stores
RollRecord(rolled, bonuses) ==
    [rolls_f |-> roll_format(rolled), roll_v |-> SumSeq(rolled),
     bonuses |-> bonuses, bonus_v |-> BonusSum(bonuses),
     total |-> SumSeq(rolled) + BonusSum(bonuses)]

RollStoreByMention(S, msg, rec) ==
    Ret([S EXCEPT !.player_last_rolls = Put(@, msg.author.mention, rec)],
        <<Send("roll", Display(msg.author.mention, rec.rolls_f, rec.roll_v,
                               rec.bonuses, rec.total))>>,
        None)

RollStore(S, msg, rec) ==
    Ret([S EXCEPT !.player_last_rolls =
                      Put(@, msg.author.display_name, rec)],
        <<Send("roll", Display(msg.author.mention, rec.rolls_f, rec.roll_v,
                               rec.bonuses, rec.total))>>,
        None)

\* _roll: the record is stored before the display is sent
_roll(S, msg, kw, env) ==
    RollStore(S, msg,
              RollRecord(env.dice, BonusTokens(OrEmpty(kw["maybe_bonuses"]))))

\* an amend that shows the running total of the roll as its base total
AmendDisplayFromTotal(S, msg, last_roll, bonuses) ==
    Ret(S,
        <<Send("roll", Display(msg.author.mention, last_roll.rolls_f,
                               last_roll.total, last_roll.bonuses \o bonuses,
                               last_roll.total + BonusSum(bonuses)))>>,
        None)

\* _amend, from last_roll on: the display is built from the stored record and
\* this message's tokens; nothing is written back to player_last_rolls
AmendDisplay(S, msg, last_roll, bonuses) ==
    Ret(S,
        <<Send("roll", Display(msg.author.mention, last_roll.rolls_f,
                               last_roll.roll_v, last_roll.bonuses \o bonuses,
                               last_roll.roll_v + last_roll.bonus_v
                                   + BonusSum(bonuses)))>>,
        None)

\* _amend
_amend(S, msg, kw) ==
    IF msg.author.display_name \notin DOMAIN S.player_last_rolls
    THEN Ret(S, <<Send("no_previous_roll", msg.author.display_name)>>, None)
    ELSE AmendDisplay(S, msg, S.player_last_rolls[msg.author.display_name],
                      BonusTokens(OrEmpty(kw["maybe_bonuses"])))

(***************************************************************************)
(* Invocation of a handler, and `.target`, which replays the stored        *)
(* invocation by calling its handler again.                                *)
(***************************************************************************)
RECURSIVE Invoke(_, _, _, _, _, _)

\* a replay that takes the stored tuple out of the slot
TargetReplayOnce(S, author, stored, entity, env, depth) ==
    Invoke([S EXCEPT !.player_last_missing_target_cmd = Pop(@, author)],
           stored.func, stored.message, Put(stored.kwargs, "entity", entity),
           env, depth + 1)

\* _target, with the stored tuple in hand: kwargs["entity"] = entity writes
\* into the dict the slot holds, then the stored handler is awaited
TargetReplay(S, author, stored, entity, env, depth) ==
    Invoke([S EXCEPT !.player_last_missing_target_cmd =
                         Put(@, author,
                             [stored EXCEPT !.kwargs = Put(@, "entity", entity)])],
           stored.func, stored.message, Put(stored.kwargs, "entity", entity),
           env, depth + 1)

\* a replay of whatever invocation is pending, whose ever it is
TargetAnyPending(S, msg, kw, env, depth) ==
    IF DOMAIN S.player_last_missing_target_cmd # {}
    THEN TargetReplay(S, CHOOSE k \in DOMAIN S.player_last_missing_target_cmd :
                             k # msg.author.display_name
                             \/ DOMAIN S.player_last_missing_target_cmd =
                                    {msg.author.display_name},
                      S.player_last_missing_target_cmd[
                          CHOOSE k \in DOMAIN S.player_last_missing_target_cmd :
                              k # msg.author.display_name
                              \/ DOMAIN S.player_last_missing_target_cmd =
                                     {msg.author.display_name}],
                      kw["entity"], env, depth)
    ELSE Ret(S, <<>>, None)

\* _target (the function the decorator wraps)
_target(S, msg, kw, env, depth) ==
    IF msg.author.display_name \in DOMAIN S.player_last_missing_target_cmd
    THEN TargetReplay(S, msg.author.display_name,
                      S.player_last_missing_target_cmd[msg.author.display_name],
                      kw["entity"], env, depth)
    ELSE Ret(S, <<>>, None)

\* the body of the handler named func
Body(S, func, msg, kw, env, depth) ==
    CASE func = "_claim"        -> _claim(S, msg, kw, env)
      [] func = "_unclaim"      -> _unclaim(S, msg)
      [] func = "_info"         -> _info(S, msg, kw, env)
      [] func = "_increment_fp" -> _increment_fp(S, msg, kw, env)
      [] func = "_target"       -> _target(S, msg, kw, env, depth)
      [] func = "_roll"         -> _roll(S, msg, kw, env)
      [] func = "_amend"        -> _amend(S, msg, kw)

\* the call event in front of what the body did
Called(ev, r) == [r EXCEPT !.evs = <<ev>> \o @]

\* await func(message, **kwargs) with `depth` frames of handlers on the
\* stack: python raises RecursionError when the stack is exhausted
Invoke(S, func, msg, kw, env, depth) ==
    IF depth > RecursionLimit
    THEN Raised(S, <<>>, "RecursionError")
    ELSE Called(Call(func, msg, kw), Body(S, func, msg, kw, env, depth))

(***************************************************************************)
(* The targeting wrapper, cut at its awaits.  A segment is what one task   *)
(* does between two suspensions: [S, evs, exc, cont, queue], cont being    *)
(* where the task is suspended (None when it has ended) and queue the      *)
(* entities its loop has not reached yet.                                  *)
(***************************************************************************)
Seg(S, evs, exc, cont, queue) ==
    [S |-> S, evs |-> evs, exc |-> exc, cont |-> cont, queue |-> queue]

\* a handler that awaited its send is suspended there
Suspended(r) == r.evs # <<>> /\ r.evs[Len(r.evs)].ev = "send"

RECURSIVE RunLoop(_, _, _, _, _)

\* one iteration of `for entity in entities`, r being what the handler did:
\* an exception leaves the loop, a send suspends the task inside the
\* handler, and a handler that did not await is followed at once by the next
LoopStep(t, rest, env, evs, r) ==
    IF r.exc # None THEN Seg(r.S, evs \o r.evs, r.exc, None, <<>>)
    ELSE IF Suspended(r) THEN Seg(r.S, evs \o r.evs, None, "loop", rest)
    ELSE RunLoop(r.S, t, rest, env, evs \o r.evs)

\* for entity in entities: all_kwargs = {**kwargs, "entity": entity};
\* await func(message, *args, **all_kwargs)
RunLoop(S, t, queue, env, evs) ==
    IF queue = <<>> THEN Seg(S, evs, None, None, <<>>)
    ELSE LoopStep(t, Tail(queue), env, evs,
                  Invoke(S, t.func, t.message,
                         Put(t.kwargs, "entity", Head(queue)), env, 1))

\* "entity" in kwargs and kwargs["entity"]
HasExplicitEntity(kw) == "entity" \in DOMAIN kw /\ Truthy(kw["entity"])

\* the list `entities` of _targeted
ResolveEntities(S, t, env) ==
    IF HasExplicitEntity(t.kwargs)
    THEN CanonFound(_get_game(env.game), <<Str(t.kwargs["entity"])>>)
    ELSE entities_from_message(S.player_mapping, t.message, env.game)

\* _targeted after the resolution: the notice when there is no entity (the
\* store comes after its await), else the loop
Resolved(S, t, env, res) ==
    IF res.exc # None
    THEN Seg(S, <<Get(env.game.status), Raise(res.exc)>>, res.exc, None, <<>>)
    ELSE IF res.val = <<>>
         THEN Seg(S, <<Get(env.game.status), Entities(res.val),
                       Send("notice", None)>>, None, "notice", <<>>)
         ELSE RunLoop(S, t, res.val, env,
                      <<Get(env.game.status), Entities(res.val)>>)

\* targeted(func)._targeted(message, **kwargs), to its first suspension
targeted(S, t, env) == Resolved(S, t, env, ResolveEntities(S, t, env))

StoreMissingByMention(S, t) ==
    [S EXCEPT !.player_last_missing_target_cmd =
         Put(@, t.message.author.mention,
             [func |-> t.func, message |-> t.message, kwargs |-> t.kwargs])]

\* player_last_missing_target_cmd[author] = (func, message, args, kwargs)
StoreMissing(S, t) ==
    [S EXCEPT !.player_last_missing_target_cmd =
         Put(@, t.message.author.display_name,
             [func |-> t.func, message |-> t.message, kwargs |-> t.kwargs])]

\* a handler without the wrapper: it ends with its exception, or is
\* suspended in its send
Plain(r) ==
    Seg(r.S, r.evs, r.exc, IF r.exc # None THEN None ELSE "end", <<>>)

\* a dispatch that drops what it cannot interpret
DispatchWithoutEcho(S, t, m, env) ==
    IF m.regex = 0
    THEN Seg(S, <<>>, None, None, <<>>)
    ELSE IF m.func \in TargetedFuncs THEN targeted(S, t, env)
    ELSE Plain(Invoke(S, m.func, t.message, m.kwargs, env, 1))

\* _dispatch_bot_command(message), m being what longest_match returned
_dispatch_bot_command(S, t, m, env) ==
    IF m.regex = 0
    THEN Seg(S, <<Send("fallback", t.message.content)>>, None, "end", <<>>)
    ELSE IF m.func \in TargetedFuncs THEN targeted(S, t, env)
    ELSE Plain(Invoke(S, m.func, t.message, m.kwargs, env, 1))

\* on_message(message): only a text that starts with "." is a bot command
on_message(S, t, m, env) ==
    IF StartsWith(t.message.content, ".")
    THEN _dispatch_bot_command(S, t, m, env)
    ELSE Seg(S, <<>>, None, None, <<>>)

\* a suspended task continues: after the notice the pending invocation is
\* stored and the loop runs over no entity; after a handler's send the loop
\* goes on; a handler without the wrapper returns
resume(S, t, env) ==
    CASE t.cont = "notice" -> Seg(StoreMissing(S, t), <<>>, None, None, <<>>)
      [] t.cont = "loop"   -> RunLoop(S, t, t.queue, env, <<>>)
      [] t.cont = "end"    -> Seg(S, <<>>, None, None, <<>>)

(***************************************************************************)
(* The inputs: the users and the texts they send, and what the             *)
(* environment answers to the requests of one segment.                     *)
(***************************************************************************)
\* the texts of the targeting and claiming commands
Texts == { ".fp+", ".fp+ 2 @ weft @ Mook", ".info Mook @ weft", ".target",
           ".target mook", ".claim weft", ".claim Nobody" }

\* the texts of the rolling commands
RollTexts == { ".roll +1", ".roll -2 athletics +1", ".amend +2",
               ".amend -1 luck", ".ROLL" }

\* the texts of a session in which characters are claimed and given up
ClaimTexts == { ".claim weft", ".claim MOOK", ".unclaim", ".fp+", ".roll +1",
                ".what" }

\* the texts of a session of two users, every kind of command among them
FrameTexts == { ".claim weft", ".unclaim", ".roll +1", ".amend +2", ".fp+",
                ".target mook" }

\* the texts of a fate point command with and without its target, and of
\* the command that supplies a target afterwards
FateTexts == { ".fp+", ".target mook", ".target Weft", ".fp+ 2 @ weft",
               ".fp+ @ MOOK", ".FP+ @ weft" }

\* longest_match of every text a user sends
Matches == [text \in Texts \cup RollTexts \cup ClaimTexts \cup FrameTexts
                     \cup FateTexts |-> longest_match(text)]

Env(game, post, dice) == [game |-> game, post |-> post, dice |-> dice]

\* the answers a handler consumes in the segment that starts it: one GET
\* /game answer (the backend does not change its mind within a segment),
\* one POST /commands answer, the dice
Envs(func) ==
    CASE func \in {"_claim", "_info"} ->
             { Env(g, PostOk, <<>>) : g \in GameReplies }
      [] func \in {"_increment_fp", "_target"} ->
             { Env(g, r, <<>>) : g \in GameReplies, r \in PostReplies }
      [] func = "_roll" ->
             { Env(GameOk, PostOk, d) : d \in DiceOutcomes }
      [] OTHER -> { Env(GameOk, PostOk, <<>>) }

\* the answers consumed when a suspended task goes on: only a loop with
\* entities left calls a handler
ResumeEnvs(t) ==
    IF t.cont = "loop" /\ t.queue # <<>>
    THEN Envs(t.func) ELSE { Env(GameOk, PostOk, <<>>) }

(***************************************************************************)
(* The state machine.                                                      *)
(***************************************************************************)
VARIABLES
    player_mapping,                  \* display name -> claimed entity
    player_object_mapping,           \* display name -> the author object
    player_last_rolls,               \* display name -> the stored roll
    player_last_missing_target_cmd,  \* display name -> (func, message, kwargs)
    tasks,       \* the on_message tasks suspended in an await, oldest first
    nmsgs,       \* the number of messages received
    hist,        \* history: per user, the last roll and the tokens amended since
    last,        \* history: what the task of the last step has done so far
    probe        \* the input and the result of a function applied on its own

vars == <<player_mapping, player_object_mapping, player_last_rolls,
          player_last_missing_target_cmd, tasks, nmsgs, hist, last, probe>>

Session ==
    [player_mapping |-> player_mapping,
     player_object_mapping |-> player_object_mapping,
     player_last_rolls |-> player_last_rolls,
     player_last_missing_target_cmd |-> player_last_missing_target_cmd]

Message(a, text) == [author |-> a, content |-> text]

\* the task on_message starts for a message: the handler longest_match
\* chose, its kwargs, where it is suspended, the entities its loop has left,
\* and all it has done
NewTask(msg, m) ==
    [message |-> msg, func |-> m.func, kwargs |-> m.kwargs, cont |-> None,
     queue |-> <<>>, log |-> <<>>]

After(t, seg) ==
    [t EXCEPT !.cont = seg.cont, !.queue = seg.queue, !.log = @ \o seg.evs]

\* what the last step did: the task, its events so far, whether it raised,
\* the events of this step alone (evs), where it was suspended before (from)
\* and is now (cont)
Observed(t, seg) ==
    [message |-> t.message, func |-> t.func, kwargs |-> t.kwargs,
     log |-> t.log \o seg.evs, evs |-> seg.evs, exc |-> seg.exc,
     from |-> t.cont, cont |-> seg.cont]

RemoveAt(q, i) ==
    [j \in 1..(Len(q) - (IF i <= Len(q) THEN 1 ELSE 0)) |->
        IF j < i THEN q[j] ELSE q[j + 1]]

Place(q, i, x) ==
    [j \in 1..(IF i <= Len(q) THEN Len(q) ELSE i) |->
        IF j = i THEN x ELSE q[j]]

\* the history of rolls: a roll starts it anew with what it displayed, an
\* amend after a roll adds its tokens
HistAfter(t, seg) ==
    IF t.cont = None /\ t.func = "_roll"
    THEN Put(hist, t.message.author.display_name,
             [roll |-> seg.evs[Len(seg.evs)].data, amended |-> <<>>])
    ELSE IF /\ t.cont = None /\ t.func = "_amend"
            /\ t.message.author.display_name \in DOMAIN hist
         THEN Put(hist, t.message.author.display_name,
                  [hist[t.message.author.display_name] EXCEPT !.amended =
                      @ \o BonusTokens(OrEmpty(t.kwargs["maybe_bonuses"]))])
         ELSE hist

\* the effect of one segment of task t, which is (or becomes) the i-th
Commit(t, i, seg) ==
    /\ player_mapping' = seg.S.player_mapping
    /\ player_object_mapping' = seg.S.player_object_mapping
    /\ player_last_rolls' = seg.S.player_last_rolls
    /\ player_last_missing_target_cmd' = seg.S.player_last_missing_target_cmd
    /\ tasks' = IF seg.cont = None THEN RemoveAt(tasks, i)
                ELSE Place(tasks, i, After(t, seg))
    /\ hist' = HistAfter(t, seg)
    /\ last' = Observed(t, seg)

\* no function is being applied on its own
NoProbe == [text |-> "", done |-> FALSE,
            matched |-> [regex |-> 0, func |-> "fallback", kwargs |-> <<>>],
            name |-> "", roster |-> <<>>, applied |-> 0,
            canon |-> Ok(""), twice |-> Ok(""),
            view |-> [order |-> <<>>, current |-> [isnull |-> TRUE, v |-> 0],
                      entities |-> <<>>, deferred |-> <<>>],
            shown |-> FALSE, rendered |-> Ok("")]

NoTask == NewTask(Message(Author(None, None), ""),
                  [func |-> None, kwargs |-> <<>>])

Init ==
    /\ player_mapping = <<>>
    /\ player_object_mapping = <<>>
    /\ player_last_rolls = <<>>
    /\ player_last_missing_target_cmd = <<>>
    /\ tasks = <<>>
    /\ nmsgs = 0
    /\ hist = <<>>
    /\ last = Observed(NoTask, Seg(<<>>, <<>>, None, None, <<>>))
    /\ probe = NoProbe

\* a message arrives, unless `limit` messages have, and its task runs to its
\* first suspension
Dispatch(a, text, limit) ==
    /\ nmsgs < limit
    /\ Len(tasks) < MaxInFlight
    /\ nmsgs' = nmsgs + 1
    /\ UNCHANGED probe
    /\ \E env \in Envs(Matches[text].func) :
          Commit(NewTask(Message(a, text), Matches[text]), Len(tasks) + 1,
                 on_message(Session, NewTask(Message(a, text), Matches[text]),
                            Matches[text], env))

\* the event loop resumes the i-th suspended task, to its next suspension
Resume(i) ==
    /\ UNCHANGED <<nmsgs, probe>>
    /\ \E env \in ResumeEnvs(tasks[i]) :
          Commit(tasks[i], i, resume(Session, tasks[i], env))

Next ==
    \/ \E a \in Authors, text \in Texts : Dispatch(a, text, MaxMessages)
    \/ \E i \in DOMAIN tasks : Resume(i)

Spec == Init /\ [][Next]_vars

NextRoll ==
    \/ \E a \in Authors, text \in RollTexts :
          Dispatch(a, text, MaxRollMessages)
    \/ \E i \in DOMAIN tasks : Resume(i)

SpecRoll == Init /\ [][NextRoll]_vars

NextClaim ==
    \/ \E a \in Authors, text \in ClaimTexts :
          Dispatch(a, text, MaxClaimMessages)
    \/ \E i \in DOMAIN tasks : Resume(i)

SpecClaim == Init /\ [][NextClaim]_vars

NextFrame ==
    \/ \E a \in {Med, Kay}, text \in FrameTexts :
          Dispatch(a, text, MaxFrameMessages)
    \/ \E i \in DOMAIN tasks : Resume(i)

SpecFrame == Init /\ [][NextFrame]_vars

NextFate ==
    \/ \E a \in Authors, text \in FateTexts :
          Dispatch(a, text, MaxFateMessages)
    \/ \E i \in DOMAIN tasks : Resume(i)

SpecFate == Init /\ [][NextFate]_vars

(***************************************************************************)
(* The matcher on its own: a text is given, longest_match is applied.      *)
(***************************************************************************)
MatchHeads == <<".s+", ".stress-", ".s!", ".order", ".order+", ".order_next",
                ".order-", ".order?", ".remove", ".remove_aspect",
                ".remove_entity", ".fp+", ".x">>

MatchTails == <<"", " 1 2", " 2 p", " p 2", " weft", " +2 @ Weft">>

MatchTexts ==
    { MatchHeads[i] \o MatchTails[j] :
         i \in DOMAIN MatchHeads, j \in DOMAIN MatchTails }

InitMatch ==
    /\ player_mapping = <<>>
    /\ player_object_mapping = <<>>
    /\ player_last_rolls = <<>>
    /\ player_last_missing_target_cmd = <<>>
    /\ tasks = <<>>
    /\ nmsgs = 0
    /\ hist = <<>>
    /\ last = Observed(NoTask, Seg(<<>>, <<>>, None, None, <<>>))
    /\ probe \in { [NoProbe EXCEPT !.text = text] : text \in MatchTexts }

\* cmds.longest_match(message.content, fallback) is applied to the text
Interpret ==
    /\ ~probe.done
    /\ probe' = [probe EXCEPT !.done = TRUE,
                              !.matched = longest_match(probe.text)]
    /\ UNCHANGED <<player_mapping, player_object_mapping, player_last_rolls,
                   player_last_missing_target_cmd, tasks, nmsgs, hist, last>>

NextMatch == Interpret

SpecMatch == InitMatch /\ [][NextMatch]_vars

(***************************************************************************)
(* The canonicalization on its own: a name and a roster are given,         *)
(* _insensitive_entity is applied to the name and then to its result.      *)
(***************************************************************************)
CanonNames == { "", "weft", "Weft", "WEFT", "wEFT", "mook", "Mook", "bob" }

\* the rosters GET /game answers with: empty, of distinct characters, and
\* with identifiers that differ only in case
CanonRosters ==
    { <<>>, <<"Weft">>, <<"Weft", "Mook">>, <<"Mook", "weft">>,
      <<"weft", "Weft">>, <<"Weft", "weft">>, <<"WEFT", "Weft", "weft">>,
      <<"Weft", "Mook", "WEFT">> }

InitCanon ==
    /\ player_mapping = <<>>
    /\ player_object_mapping = <<>>
    /\ player_last_rolls = <<>>
    /\ player_last_missing_target_cmd = <<>>
    /\ tasks = <<>>
    /\ nmsgs = 0
    /\ hist = <<>>
    /\ last = Observed(NoTask, Seg(<<>>, <<>>, None, None, <<>>))
    /\ probe \in { [NoProbe EXCEPT !.name = n, !.roster = r] :
                       n \in CanonNames, r \in CanonRosters }

\* _insensitive_entity(_get_game(), name)
Canonicalize ==
    /\ probe.applied = 0
    /\ probe' = [probe EXCEPT !.applied = 1,
                              !.canon = _insensitive_entity(
                                            _get_game([status |-> "ok",
                                                       entities |-> probe.roster]).val,
                                            Str(probe.name))]
    /\ UNCHANGED <<player_mapping, player_object_mapping, player_last_rolls,
                   player_last_missing_target_cmd, tasks, nmsgs, hist, last>>

\* _insensitive_entity(_get_game(), entity), entity being an earlier result
CanonicalizeAgain ==
    /\ probe.applied = 1 /\ probe.canon.exc = None
    /\ probe' = [probe EXCEPT !.applied = 2,
                              !.twice = _insensitive_entity(
                                            _get_game([status |-> "ok",
                                                       entities |-> probe.roster]).val,
                                            Str(probe.canon.val))]
    /\ UNCHANGED <<player_mapping, player_object_mapping, player_last_rolls,
                   player_last_missing_target_cmd, tasks, nmsgs, hist, last>>

NextCanon == Canonicalize \/ CanonicalizeAgain

SpecCanon == InitCanon /\ [][NextCanon]_vars

(***************************************************************************)
(* The rendering of a turn order on its own: an OrderView and the claims   *)
(* of the users are given, pretty_print_order is applied.  The current     *)
(* index of a view is [isnull, v]: null, or the integer v.                 *)
(***************************************************************************)
\* ' '.join(q)
RECURSIVE Join(_)
Join(q) ==
    IF q = <<>> THEN ""
    ELSE Head(q) \o (IF Len(q) > 1 THEN " " ELSE "") \o Join(Tail(q))

\* the mention of a player whose claimed entity is active, else None (next
\* takes the first such player; the claims given here have at most one)
active_mention(active, pm, pom) ==
    IF \E player \in DOMAIN pm : pm[player] = active
    THEN pom[CHOOSE player \in DOMAIN pm : pm[player] = active].mention
    ELSE None

\* pretty_print_order(order_): with order and entities non-empty, the list
\* comprehension evaluates current + 1 for the first entry of order, which
\* raises TypeError when current is None (the text is given without its
\* code-span marks)
pretty_print_order(order_, pm, pom) ==
    IF order_.order # <<>> /\ order_.entities # <<>>
    THEN IF order_.current.isnull THEN Exc("TypeError")
         ELSE Ok((IF active_mention(order_.order[order_.current.v + 1],
                                    pm, pom) # None
                  THEN active_mention(order_.order[order_.current.v + 1],
                                      pm, pom) \o ": "
                  ELSE "")
                 \o Join([i \in DOMAIN order_.order |->
                            IF i = order_.current.v + 1
                            THEN "[" \o Ch(DigitChars, i + 1) \o "."
                                      \o order_.order[i] \o "]"
                            ELSE Ch(DigitChars, i + 1) \o "."
                                     \o order_.order[i]])
                 \o (IF order_.deferred # <<>>
                     THEN "\ndeferred: " \o Join(order_.deferred)
                     ELSE ""))
    ELSE IF order_.order = <<>> /\ order_.entities # <<>>
         THEN Ok("Ready: " \o Join(order_.entities))
         ELSE Ok("No turn order")

\* the OrderViews the backend answers with: the order empty or not, current
\* null or an index into the order, the pre-start entities and the deferred
\* entities empty or not
OrderViews ==
    { [order |-> o, current |-> c, entities |-> e, deferred |-> d] :
         o \in { <<>>, <<"Weft">>, <<"Weft", "Mook">>, <<"Mook", "Weft">> },
         c \in { [isnull |-> TRUE, v |-> 0], [isnull |-> FALSE, v |-> 0],
                 [isnull |-> FALSE, v |-> 1] },
         e \in { <<>>, <<"Weft", "Mook">> },
         d \in { <<>>, <<"Mook">> } }

InitOrder ==
    /\ player_mapping \in
           { <<>>, Put(<<>>, "med", "Weft"), Put(<<>>, "gm (Mook)", "Mook"),
             Put(Put(<<>>, "med", "Weft"), "gm (Mook)", "Mook") }
    /\ player_object_mapping =
           [k \in DOMAIN player_mapping |-> IF k = "med" THEN Med ELSE Gm]
    /\ player_last_rolls = <<>>
    /\ player_last_missing_target_cmd = <<>>
    /\ tasks = <<>>
    /\ nmsgs = 0
    /\ hist = <<>>
    /\ last = Observed(NoTask, Seg(<<>>, <<>>, None, None, <<>>))
    /\ probe \in { [NoProbe EXCEPT !.view = w] :
                       w \in { x \in OrderViews :
                                 x.current.isnull
                                     \/ x.current.v < Len(x.order) } }

\* message.channel.send(pretty_print_order(order)): the text is built
RenderOrder ==
    /\ ~probe.shown
    /\ probe' = [probe EXCEPT !.shown = TRUE,
                              !.rendered = pretty_print_order(
                                               probe.view, player_mapping,
                                               player_object_mapping)]
    /\ UNCHANGED <<player_mapping, player_object_mapping, player_last_rolls,
                   player_last_missing_target_cmd, tasks, nmsgs, hist, last>>

SpecOrder == InitOrder /\ [][RenderOrder]_vars

(***************************************************************************)
(* What the claims speak of, read off the log of a task.                   *)
(***************************************************************************)
\* the invocations of handler func for the message with the given content
CallsOf(log, func, content) ==
    SelectSeq(log, LAMBDA e : /\ e.ev = "call" /\ e.kind = func
                              /\ e.data.content = content)

AllCalls(log) == SelectSeq(log, LAMBDA e : e.ev = "call")

\* the entity each of these invocations was given
EntitiesOfCalls(calls) == [i \in DOMAIN calls |-> calls[i].data.kwargs["entity"]]

Sends(log, kind) == SelectSeq(log, LAMBDA e : e.ev = "send" /\ e.kind = kind)

Posts(log) == SelectSeq(log, LAMBDA e : e.ev = "post")

\* the entities the wrapper resolved, when it came that far
Resolutions(log) == SelectSeq(log, LAMBDA e : e.ev = "entities")

\* every GET /game of the task was answered with the roster
RosterFetched(log) ==
    \A i \in DOMAIN log : log[i].ev = "get" => log[i].data = "ok"

\* the task met a backend that could not be reached
TransportFailed(o) == o.exc \in {"ConnectionError", "HTTPError"}

\* the identifier of the roster that equals name ignoring case, else name
RosterName(name) ==
    IF \E i \in DOMAIN Roster : Lower(Roster[i]) = Lower(name)
    THEN Roster[CHOOSE i \in DOMAIN Roster : Lower(Roster[i]) = Lower(name)]
    ELSE name

RosterNames(names) == [i \in DOMAIN names |-> RosterName(names[i])]

\* the step observed in o started the task of a message
Dispatched(o) == o.func # None /\ o.from = None

\* the invocation the wrapper stores for the task observed in o
Pending(o) == [func |-> o.func, message |-> o.message, kwargs |-> o.kwargs]

(***************************************************************************)
(* C1.                                                                     *)
(***************************************************************************)
\* the span of the i-th registered pattern on text, -1 when it does not match
SpanOf(i, text) ==
    IF PatternMatch(Commands[i], text).ok
    THEN PatternMatch(Commands[i], text).span ELSE -1

\* C1: for every text that at least one registered pattern matches,
\* longest_match returns the handler and the captures of a pattern whose
\* matched span is maximal among the matching patterns, and of the first
\* registered one among those of maximal span.
C1_LongestFirstRegistered ==
    (probe.done /\ \E i \in DOMAIN Commands : SpanOf(i, probe.text) >= 0) =>
        /\ probe.matched.regex \in DOMAIN Commands
        /\ SpanOf(probe.matched.regex, probe.text) >= 0
        /\ probe.matched.func = Commands[probe.matched.regex].func
        /\ probe.matched.kwargs =
               PatternMatch(Commands[probe.matched.regex], probe.text).groups
        /\ \A j \in DOMAIN Commands :
              /\ SpanOf(j, probe.text) <= SpanOf(probe.matched.regex, probe.text)
              /\ SpanOf(j, probe.text) = SpanOf(probe.matched.regex, probe.text)
                     => probe.matched.regex <= j

\* C1 witness: a text that two patterns match with the same span has been
\* matched, and the earlier registered of the two was chosen
C1_Witness_Tie ==
    /\ probe.done
    /\ \E i, j \in DOMAIN Commands :
          /\ i < j /\ probe.matched.regex = i
          /\ SpanOf(i, probe.text) = SpanOf(j, probe.text)

(***************************************************************************)
(* C2.                                                                     *)
(***************************************************************************)
\* the names of the first non-empty source: the markers of the text, the
\* claim of the user, the parenthesised word of the display name
FirstSource(msg, claims) ==
    IF explicit_matches(msg.content) # <<>> THEN explicit_matches(msg.content)
    ELSE IF msg.author.display_name \in DOMAIN claims
         THEN <<claims[msg.author.display_name]>>
    ELSE IF match_for_author_name(msg.author.display_name) # None
         THEN <<match_for_author_name(msg.author.display_name)>>
    ELSE <<>>

\* C2: when a target-requiring command without an explicit target argument
\* is dispatched and the roster is fetched, the targets resolved are the
\* names of the first non-empty source among the markers of the text, the
\* user's claimed entity and the parenthesised word of the user's display
\* name, canonicalized, and nothing from a source of lower priority.
C2_SourcePriority ==
    ( /\ Dispatched(last) /\ last.func \in TargetedFuncs
      /\ ~HasExplicitEntity(last.kwargs) /\ RosterFetched(last.log) )
    => /\ Len(Resolutions(last.log)) = 1
       /\ Resolutions(last.log)[1].data =
              RosterNames(FirstSource(last.message, player_mapping))

(***************************************************************************)
(* C3.                                                                     *)
(***************************************************************************)
\* the wrapper resolved no entity for the task observed in o
ZeroTargets(o) ==
    /\ o.func \in TargetedFuncs /\ ~HasExplicitEntity(o.kwargs)
    /\ Len(Resolutions(o.log)) = 1 /\ Resolutions(o.log)[1].data = <<>>

\* C3: in every step of a task of a target-requiring command without an
\* explicit target argument whose resolution yielded no entity, the task has
\* sent exactly one 'no target' notice, has invoked no handler and issued no
\* POST /commands, and when it ends the pending map is the one before with
\* this invocation under the invoking user's key (until then it is unchanged).
C3_ZeroTargetsDeferred ==
    [][ ZeroTargets(last') =>
          /\ Len(Sends(last'.log, "notice")) = 1
          /\ AllCalls(last'.log) = <<>>
          /\ Posts(last'.log) = <<>>
          /\ last'.cont \in {"notice", None}
          /\ last'.cont = "notice" =>
                 player_last_missing_target_cmd' = player_last_missing_target_cmd
          /\ last'.cont = None =>
                 player_last_missing_target_cmd' =
                     Put(player_last_missing_target_cmd,
                         last'.message.author.display_name, Pending(last')) ]_vars

\* C3 witness: a task that resolved no entity has ended, and its invocation
\* is in the pending slot of its user
C3_Witness_Stored ==
    /\ ZeroTargets(last) /\ last.cont = None /\ last.from = "notice"
    /\ last.message.author.display_name
           \in DOMAIN player_last_missing_target_cmd
    /\ player_last_missing_target_cmd[last.message.author.display_name]
           = Pending(last)

(***************************************************************************)
(* C4.                                                                     *)
(***************************************************************************)
\* C4: when user U, whose pending slot holds invocation X, sends
\* '.target <name>' and the roster is fetched, the handler of X is invoked
\* exactly once for X's message, with X's stored arguments and the entity
\* <name> canonicalized against the roster.
C4_ReplayExactlyOnce ==
    [][ ( /\ Dispatched(last') /\ last'.func = "_target"
          /\ HasExplicitEntity(last'.kwargs) /\ RosterFetched(last'.log)
          /\ last'.message.author.display_name
                 \in DOMAIN player_last_missing_target_cmd )
        => CallsOf(last'.log,
                   player_last_missing_target_cmd[
                       last'.message.author.display_name].func,
                   player_last_missing_target_cmd[
                       last'.message.author.display_name].message.content)
           = << Call(player_last_missing_target_cmd[
                         last'.message.author.display_name].func,
                     player_last_missing_target_cmd[
                         last'.message.author.display_name].message,
                     Put(player_last_missing_target_cmd[
                             last'.message.author.display_name].kwargs,
                         "entity", RosterName(last'.kwargs["entity"]))) >> ]_vars

(***************************************************************************)
(* C5.                                                                     *)
(***************************************************************************)
\* C5: when the task of a target-requiring command without an explicit
\* target argument, whose text carries N >= 1 markers, has ended and met no
\* unreachable backend, the wrapped handler has been invoked N times for that
\* message, with the canonicalized names of the markers from left to right,
\* also when the backend answered ok: false.
C5_OneInvocationPerMarker ==
    ( /\ last.func \in TargetedFuncs /\ last.cont = None
      /\ ~HasExplicitEntity(last.kwargs) /\ ~TransportFailed(last)
      /\ explicit_matches(last.message.content) # <<>> )
    => EntitiesOfCalls(CallsOf(last.log, last.func, last.message.content))
           = RosterNames(explicit_matches(last.message.content))

(***************************************************************************)
(* C6.                                                                     *)
(***************************************************************************)
\* C6: when the task of a target-requiring command whose pattern captured a
\* non-empty target argument has ended and met no unreachable backend, the
\* wrapped handler has been invoked exactly once for that message, with that
\* name canonicalized, whatever markers the text has and whatever the user
\* has claimed, and the task has sent no 'no target' notice.
C6_ExplicitArgumentOnce ==
    ( /\ last.func \in TargetedFuncs /\ last.cont = None
      /\ HasExplicitEntity(last.kwargs) /\ ~TransportFailed(last) )
    => /\ EntitiesOfCalls(CallsOf(last.log, last.func, last.message.content))
              = <<RosterName(last.kwargs["entity"])>>
       /\ Sends(last.log, "notice") = <<>>

(***************************************************************************)
(* C7.                                                                     *)
(***************************************************************************)
\* C7: a step of the task of '.target' sent without a name and without a
\* marker, by a user who has no claim and no parenthesised word in the
\* display name, sends no 'no target' notice and leaves the pending slot of
\* that user as it was.
C7_TargetNotTargetRequiring ==
    [][ ( /\ last'.func = "_target" /\ ~HasExplicitEntity(last'.kwargs)
          /\ FirstSource(last'.message, player_mapping) = <<>> )
        => /\ Sends(last'.log, "notice") = <<>>
           /\ player_last_missing_target_cmd' = player_last_missing_target_cmd
      ]_vars

(***************************************************************************)
(* C8.                                                                     *)
(***************************************************************************)
\* the roll display the task observed in o has sent
Displayed(o) == Sends(o.log, "roll")[1].data

\* C8: an amend by a user who has rolled displays the bonus tokens of the
\* roll followed by the tokens of every amend made since, this one included,
\* in the order applied, and the base total plus the sum of all of them.
C8_AmendsAccumulate ==
    ( /\ Dispatched(last) /\ last.func = "_amend"
      /\ last.message.author.display_name \in DOMAIN hist )
    => /\ Len(Sends(last.log, "roll")) = 1
       /\ Displayed(last).bonuses =
              hist[last.message.author.display_name].roll.bonuses
                  \o hist[last.message.author.display_name].amended
       /\ Displayed(last).total =
              hist[last.message.author.display_name].roll.roll_v
                  + BonusSum(hist[last.message.author.display_name].roll.bonuses
                                 \o hist[last.message.author.display_name].amended)

(***************************************************************************)
(* C9.                                                                     *)
(***************************************************************************)
\* C9: an amend by user U sends the 'no previous roll' failure and no roll
\* display exactly when U has not rolled before (whoever else has), and sends
\* one roll display otherwise; a failed amend leaves the four session maps
\* unchanged.
C9_AmendNeedsOwnRoll ==
    [][ (Dispatched(last') /\ last'.func = "_amend") =>
          /\ last'.exc = None
          /\ (Len(Sends(last'.log, "no_previous_roll")) = 1)
                 <=> (last'.message.author.display_name \notin DOMAIN hist)
          /\ Len(Sends(last'.log, "no_previous_roll"))
                 + Len(Sends(last'.log, "roll")) = 1
          /\ Sends(last'.log, "no_previous_roll") # <<>> =>
                 UNCHANGED <<player_mapping, player_object_mapping,
                             player_last_rolls,
                             player_last_missing_target_cmd>> ]_vars

\* C9 witness: an amend has failed for a user who has not rolled while a roll
\* of another user is stored
C9_Witness_OtherUsersRoll ==
    /\ Dispatched(last) /\ last.func = "_amend"
    /\ Sends(last.log, "no_previous_roll") # <<>>
    /\ player_last_rolls # <<>>

(***************************************************************************)
(* C10.                                                                    *)
(***************************************************************************)
\* C10: a claim with a name that equals no identifier of the roster ignoring
\* case, whose request for the roster is answered, sends the 'No such
\* entity' message, leaves the map of claims and the map of user references
\* unchanged and issues no POST /commands.
C10_UnknownNameRejected ==
    [][ ( /\ Dispatched(last') /\ last'.func = "_claim"
          /\ ~TransportFailed(last')
          /\ \A i \in DOMAIN Roster :
                Lower(Roster[i]) # Lower(last'.kwargs["entity"]) )
        => /\ Len(Sends(last'.log, "no_such_entity")) = 1
           /\ player_mapping' = player_mapping
           /\ player_object_mapping' = player_object_mapping
           /\ Posts(last'.log) = <<>> ]_vars

(***************************************************************************)
(* C11.                                                                    *)
(***************************************************************************)
\* the step observed in o started a claim whose GET /game was answered with
\* the roster, and the name asked for equals a roster identifier ignoring case
ClaimOfRosterName(o) ==
    /\ Dispatched(o) /\ o.func = "_claim"
    /\ \E i \in DOMAIN o.evs : o.evs[i] = Get("ok")
    /\ \E i \in DOMAIN Roster : Lower(Roster[i]) = Lower(o.kwargs["entity"])

\* C11: a claim whose name matches a roster identifier ignoring case stores,
\* under the user's key, the identifier in the roster's own casing and the
\* user's author object (the mention reference), replacing whatever the user
\* had claimed before and leaving the other users' entries alone.
C11_ClaimStoresRosterCasing ==
    [][ClaimOfRosterName(last') =>
          /\ player_mapping' =
                 Put(player_mapping, last'.message.author.display_name,
                     RosterName(last'.kwargs["entity"]))
          /\ player_object_mapping' =
                 Put(player_object_mapping, last'.message.author.display_name,
                     last'.message.author)
          /\ last'.exc = None]_vars

\* C11 witness: a user who had claimed Weft has claimed "MOOK" and is now
\* recorded as playing Mook
C11_Witness_Reclaimed ==
    /\ ClaimOfRosterName(last)
    /\ last.message = Message(Med, ".claim MOOK")
    /\ tasks # <<>> /\ tasks[1].message = Message(Med, ".claim weft")
    /\ Sends(tasks[1].log, "now_playing") # <<>>
    /\ player_mapping["med"] = "Mook"
    /\ player_object_mapping["med"] = Med

(***************************************************************************)
(* C12.                                                                    *)
(***************************************************************************)
\* dict d without the entry of key k, whether or not it has one
Without(d, k) == [j \in DOMAIN d \ {k} |-> d[j]]

\* C12: an unclaim by a user who has a claim removes the user's entry from
\* both claim maps and confirms it with the entity given up; by a user who
\* has none it only reports "not playing any character".  Either way the
\* entries of every other user stay as they were, and so do all stored rolls
\* and pending invocations, the invoking user's included.
C12_UnclaimOnlyOwnClaim ==
    [][(Dispatched(last') /\ last'.func = "_unclaim") =>
          /\ player_mapping' =
                 Without(player_mapping, last'.message.author.display_name)
          /\ player_object_mapping' =
                 Without(player_object_mapping,
                         last'.message.author.display_name)
          /\ UNCHANGED <<player_last_rolls, player_last_missing_target_cmd>>
          /\ last'.exc = None
          /\ last'.evs[Len(last'.evs)] =
                 IF last'.message.author.display_name \in DOMAIN player_mapping
                 THEN Send("no_longer_playing",
                           [author |-> last'.message.author.display_name,
                            entity |-> player_mapping[
                                last'.message.author.display_name]])
                 ELSE Send("not_playing",
                           last'.message.author.display_name)
          /\ Len(SelectSeq(last'.evs, LAMBDA e : e.ev = "send")) = 1]_vars

\* C12 witness: a user with a claim, a stored roll and a pending invocation
\* has given up the claim while another user keeps theirs
C12_Witness_OthersKept ==
    /\ Dispatched(last) /\ last.func = "_unclaim"
    /\ Sends(last.evs, "no_longer_playing") # <<>>
    /\ last.message.author = Med
    /\ "med" \notin DOMAIN player_mapping
    /\ "med" \notin DOMAIN player_object_mapping
    /\ "gm (Mook)" \in DOMAIN player_mapping

\* C12 witness of the other case: a user without a claim, but with a pending
\* invocation, asked to give it up
C12_Witness_NoClaim ==
    /\ Dispatched(last) /\ last.func = "_unclaim"
    /\ Sends(last.evs, "not_playing") # <<>>
    /\ last.message.author.display_name \in
           DOMAIN player_last_missing_target_cmd

(***************************************************************************)
(* C13.                                                                    *)
(***************************************************************************)
\* C13: the accesses to one user's session are serialized: while a task of
\* a user has sent the "no target" notice and has not yet stored the
\* invocation in the user's pending slot, no other message of that user is
\* dispatched.
C13_SessionSerialized ==
    [][Dispatched(last') =>
          \A i \in DOMAIN tasks :
              tasks[i].cont = "notice" =>
                  tasks[i].message.author.display_name #
                      last'.message.author.display_name]_vars

(***************************************************************************)
(* C14.                                                                    *)
(***************************************************************************)
\* C14: a handler that sends a request to the backend is suspended at it, so
\* that the event loop is free while the response is awaited: the request is
\* the last thing the task does in its step, and the dispatch of another
\* message can be the next step.
C14_LoopFreeDuringRequest ==
    \A i \in DOMAIN last.evs :
        last.evs[i].ev \in {"get", "post"} => i = Len(last.evs)

(***************************************************************************)
(* C15.                                                                    *)
(***************************************************************************)
\* no registered pattern matches the text
Uninterpretable(text) ==
    \A i \in DOMAIN Commands : ~PatternMatch(Commands[i], text).ok

\* C15: a text that no registered pattern matches invokes no handler and
\* sends no request to the backend: all its task ever does is to send the
\* "Could not interpret command" echo of the text, once, and none of its
\* steps changes a session map.
C15_UnmatchedTextEchoed ==
    [][(last'.func # None /\ Uninterpretable(last'.message.content)) =>
          /\ last'.log = <<Send("fallback", last'.message.content)>>
          /\ last'.exc = None
          /\ UNCHANGED <<player_mapping, player_object_mapping,
                         player_last_rolls,
                         player_last_missing_target_cmd>>]_vars

\* C15 witness: with a claim, a stored roll and a pending invocation in the
\* session, a text that could not be interpreted has been echoed
C15_Witness_Echoed ==
    /\ last.message.content = ".what"
    /\ Sends(last.log, "fallback") # <<>>
    /\ player_mapping # <<>>
    /\ player_last_rolls # <<>> \/ player_last_missing_target_cmd # <<>>

(***************************************************************************)
(* C16.                                                                    *)
(***************************************************************************)
\* C16: applied to a name and a roster, the canonicalization returns an
\* identifier of the roster whose lower-cased form is the lower-cased name
\* whenever the roster has one, and the name as it was given otherwise.
C16_CanonicalIsRosterIdentifier ==
    probe.applied >= 1 =>
        /\ probe.canon.exc = None
        /\ IF \E i \in DOMAIN probe.roster :
                  Lower(probe.roster[i]) = Lower(probe.name)
           THEN /\ \E i \in DOMAIN probe.roster :
                      probe.roster[i] = probe.canon.val
                /\ Lower(probe.canon.val) = Lower(probe.name)
           ELSE probe.canon.val = probe.name

\* C16 witness: a name typed in another casing has been canonicalized to the
\* roster's identifier, and a name the roster does not have to itself
C16_Witness_OtherCasing ==
    /\ probe.applied >= 1
    /\ probe.name = "wEFT" /\ probe.roster = <<"Weft", "Mook">>
    /\ probe.canon = Ok("Weft")

(***************************************************************************)
(* C17.                                                                    *)
(***************************************************************************)
\* C17: canonicalizing the result of a canonicalization against the same
\* roster returns that result, whatever the name and the roster, rosters
\* with identifiers that differ only in case included.
C17_CanonicalizeIdempotent ==
    probe.applied = 2 => probe.twice = probe.canon

\* C17 witness: against a roster with two identifiers that differ only in
\* case, a name spelled as the first of them has been canonicalized twice
C17_Witness_CaseDuplicates ==
    /\ probe.applied = 2
    /\ probe.name = "Weft" /\ probe.roster = <<"Weft", "weft">>
    /\ probe.canon = Ok("weft") /\ probe.twice = Ok("weft")

(***************************************************************************)
(* C18.                                                                    *)
(***************************************************************************)
\* C18: when a target-requiring command without a target argument and
\* without markers is dispatched by a user who has no claim and whose
\* display name has a parenthesised word, and the roster is fetched, the
\* target resolved is that word canonicalized, and the wrapped handler is
\* invoked with it exactly once.
C18_DisplayNameTarget ==
    ( /\ Dispatched(last) /\ last.func \in TargetedFuncs \ {"_target"}
      /\ ~HasExplicitEntity(last.kwargs)
      /\ explicit_matches(last.message.content) = <<>>
      /\ last.message.author.display_name \notin DOMAIN player_mapping
      /\ match_for_author_name(last.message.author.display_name) # None
      /\ RosterFetched(last.log) )
    => /\ Len(Resolutions(last.log)) = 1
       /\ Resolutions(last.log)[1].data =
              <<RosterName(match_for_author_name(
                               last.message.author.display_name))>>
       /\ EntitiesOfCalls(AllCalls(last.log)) =
              <<RosterName(match_for_author_name(
                               last.message.author.display_name))>>
       /\ last.exc = None

(***************************************************************************)
(* C19.                                                                    *)
(***************************************************************************)
\* the names a target-requiring command is given, before canonicalization
\* (the text of a display-name match standing for the match)
NamesGiven(o, claims) ==
    IF HasExplicitEntity(o.kwargs) THEN <<o.kwargs["entity"]>>
    ELSE FirstSource(o.message, claims)

\* C19: when GET /game answers ok: false the dispatch behaves as with an
\* empty roster and does not fail: a claim is rejected with the "No such
\* entity" message, and a target-requiring command resolves its names
\* unchanged and invokes its handler with the first of them.
C19_RosterUnavailableIsEmptyRoster ==
    ( /\ Dispatched(last)
      /\ \E i \in DOMAIN last.evs : last.evs[i] = Get("notok") )
    => /\ last.func = "_claim" =>
              /\ Sends(last.evs, "no_such_entity") =
                     <<Send("no_such_entity",
                            [mention |-> last.message.author.mention,
                             entity |-> last.kwargs["entity"]])>>
              /\ last.exc = None
       /\ last.func \in TargetedFuncs \ {"_target"} =>
              /\ Len(Resolutions(last.evs)) = 1
              /\ Resolutions(last.evs)[1].data =
                     NamesGiven(last, player_mapping)
              /\ NamesGiven(last, player_mapping) # <<>> =>
                     /\ AllCalls(last.evs) # <<>>
                     /\ AllCalls(last.evs)[1].data.kwargs["entity"] =
                            NamesGiven(last, player_mapping)[1]

(***************************************************************************)
(* C20.                                                                    *)
(***************************************************************************)
\* the i-th event of log is a POST /commands answer with ok: false, at the
\* outer level (no result) or in the nested result
Rejection(log, i) ==
    /\ log[i].ev = "answer"
    /\ log[i].data.result_ok \in {None, "false"}

\* the description text of a rejecting answer
DescriptionOf(answer) ==
    IF answer.result_description # None
    THEN answer.result_description ELSE answer.description

C21_TransportFailureReported ==
    TransportFailed(last) =>
        /\ last.evs[Len(last.evs)].ev = "send"
        /\ last.evs[Len(last.evs)].kind # "error"

(***************************************************************************)
(* C22.                                                                    *)
(***************************************************************************)
\* key k has the same entry, or none, in dicts d and e
SameEntry(d, e, k) ==
    /\ (k \in DOMAIN d) = (k \in DOMAIN e)
    /\ k \in DOMAIN d => d[k] = e[k]

\* every key but u has the same entry, or none, in dicts d and e
OthersKept(d, e, u) ==
    \A k \in (DOMAIN d \cup DOMAIN e) \ {u} : SameEntry(d, e, k)

\* C22: no step of a command of user U, whatever the command and however it
\* ends, changes the claimed entity, the user reference, the last roll or
\* the pending invocation of a user with another display name, and every
\* handler invocation of the task of a message, replays by '.target'
\* included, is for a message of its own author.
C22_OtherUsersUntouched ==
    [][last'.func # None =>
          /\ OthersKept(player_mapping, player_mapping',
                        last'.message.author.display_name)
          /\ OthersKept(player_object_mapping, player_object_mapping',
                        last'.message.author.display_name)
          /\ OthersKept(player_last_rolls, player_last_rolls',
                        last'.message.author.display_name)
          /\ OthersKept(player_last_missing_target_cmd,
                        player_last_missing_target_cmd',
                        last'.message.author.display_name)
          /\ \A i \in DOMAIN last'.log :
                last'.log[i].ev = "call" =>
                    last'.log[i].data.author =
                        last'.message.author.display_name]_vars

\* C22 witness: while another user has a claim and a pending invocation, a
\* user's '.target' has done nothing, as the user has nothing pending
C22_Witness_NothingToReplay ==
    /\ last.func = "_target" /\ last.message.author = Kay
    /\ Len(AllCalls(last.log)) = 1 /\ last.exc = None
    /\ "kay" \notin DOMAIN player_last_missing_target_cmd
    /\ "med" \in DOMAIN player_last_missing_target_cmd
    /\ "med" \in DOMAIN player_mapping

(***************************************************************************)
(* C23.                                                                    *)
(***************************************************************************)
\* C23: a step changes the claimed-entity map or the user-reference map
\* only if it is a step of claim or unclaim, the last-roll map only if it is
\* a step of roll or amend, and the pending-invocation map, the arguments
\* stored in an invocation included, only if it is the store that follows
\* the "no target" notice in the targeting wrapper.
C23_FieldsChangedByOwners ==
    [][/\ ( \/ player_mapping' # player_mapping
            \/ player_object_mapping' # player_object_mapping )
          => last'.func \in {"_claim", "_unclaim"}
       /\ player_last_rolls' # player_last_rolls
          => last'.func \in {"_roll", "_amend"}
       /\ player_last_missing_target_cmd' # player_last_missing_target_cmd
          => last'.from = "notice"]_vars

(***************************************************************************)
(* C24.                                                                    *)
(***************************************************************************)
\* the text after the leading "." begins with an alias, in the letter case
\* it was registered in, of a command whose handler is func
BeginsWithAliasOf(text, func) ==
    \E i \in DOMAIN Commands :
        /\ Commands[i].func = func
        /\ \E j \in DOMAIN Commands[i].aliases :
              StartsWith(text, "." \o Commands[i].aliases[j])

\* C24: the handler a message is dispatched to is one of a command with an
\* alias, in exactly its registered letter case, that the text after the
\* leading "." begins with; and the markers of a dispatched target-requiring
\* command resolve, once the roster is fetched, to the roster identifiers
\* that equal them ignoring letter case.
C24_AliasExactNamesAnyCase ==
    /\ \A i \in DOMAIN last.log :
          (last.log[i].ev = "call" /\ last.log[i].data.content =
                                         last.message.content)
          => BeginsWithAliasOf(last.message.content, last.log[i].kind)
    /\ ( /\ Dispatched(last) /\ last.func \in TargetedFuncs
         /\ ~HasExplicitEntity(last.kwargs)
         /\ explicit_matches(last.message.content) # <<>>
         /\ RosterFetched(last.log) )
       => /\ Len(Resolutions(last.log)) = 1
          /\ Resolutions(last.log)[1].data =
                 RosterNames(explicit_matches(last.message.content))

\* C24 witness: ".FP+ @ weft" has been echoed as not interpretable while the
\* task of ".fp+ @ MOOK" has resolved its marker to Mook
C24_Witness_CaseOfAliasAndName ==
    /\ last.message.content = ".FP+ @ weft"
    /\ last.log = <<Send("fallback", ".FP+ @ weft")>>
    /\ tasks # <<>> /\ tasks[1].message.content = ".fp+ @ MOOK"
    /\ Resolutions(tasks[1].log) = <<Entities(<<"Mook">>)>>

(***************************************************************************)
(* C25.                                                                    *)
(***************************************************************************)
\* the message ".fp+ N @ E", or ".fp+ @ E" when n is None
FateText(n, e) ==
    ".fp+" \o (IF n = None THEN "" ELSE " " \o n) \o " @ " \o e

\* C25: the message ".fp+ N @ E" or ".fp+ @ E", E being an identifier of the
\* fetched roster in any letter case, causes exactly one POST /commands, with
\* command increment_fp, the roster's spelling of E as entity and the digits
\* N as amount (None when no amount was typed); when the answer is a
\* success, exactly one entity summary is sent, and it is all that is sent.
C25_FatePointEndToEnd ==
    \A n \in {None, "2"}, e \in {"weft", "MOOK"} :
        ( /\ last.message.content = FateText(n, e)
          /\ \E i \in DOMAIN last.log : last.log[i] = Get("ok") )
        => /\ Posts(last.log) =
                  <<Post([command |-> "increment_fp", entity |-> RosterName(e),
                          amount |-> n])>>
           /\ (\E i \in DOMAIN last.log : last.log[i] = Answer(PostOk))
              => SelectSeq(last.log, LAMBDA x : x.ev = "send") =
                     <<Send("entity", RosterName(e))>>

\* C25 witness: ".fp+ @ MOOK" has been posted for Mook without an amount and
\* answered with a success
C25_Witness_NoAmount ==
    /\ last.message.content = ".fp+ @ MOOK"
    /\ Posts(last.log) =
           <<Post([command |-> "increment_fp", entity |-> "Mook",
                   amount |-> None])>>
    /\ Sends(last.log, "entity") = <<Send("entity", "Mook")>>

(***************************************************************************)
(* C26.                                                                    *)
(***************************************************************************)
\* the step observed in o started a '.target' with a name, for which the
\* roster was fetched, while the slot of its user held an invocation of a
\* command in pending
ReplayOf(o, pending) ==
    /\ Dispatched(o) /\ o.func = "_target" /\ HasExplicitEntity(o.kwargs)
    /\ \E i \in DOMAIN o.evs : o.evs[i] = Get("ok")
    /\ o.message.author.display_name \in DOMAIN pending
    /\ pending[o.message.author.display_name].func # "_target"

C27_TargetTerminates ==
    (last.func = "_target" /\ Len(Resolutions(last.log)) = 1) =>
        /\ last.exc # "RecursionError"
        /\ Len(AllCalls(last.log)) <= 2 * Len(Resolutions(last.log)[1].data)

(***************************************************************************)
(* C28.                                                                    *)
(***************************************************************************)
\* C28: when a user has sent a zero-target command X and then another, Y,
\* the slot of the user holds Y once both are through, however their tasks
\* interleave: the task of Y never stores its invocation while the task of
\* X, dispatched before it, has yet to store its own (which it then does,
\* over that of Y).
C28_LaterCommandStays ==
    [][last'.from = "notice" =>
          \A i, j \in DOMAIN tasks :
              ~ ( /\ j < i
                  /\ tasks[i].cont = "notice"
                  /\ Pending(tasks[i]) = Pending(last')
                  /\ tasks[j].cont = "notice"
                  /\ tasks[j].message.author = last'.message.author
                  /\ Pending(tasks[j]) # Pending(last') )]_vars

(***************************************************************************)
(* C29.                                                                    *)
(***************************************************************************)
\* C29: in every reachable state, whatever tasks are suspended, the
\* claimed-entity map and the user-reference map have the same keys, and
\* the reference under a key is that of the user with that display name:
\* the mention of the user who claimed an entity can always be looked up.
C29_ClaimMapsSameKeys ==
    /\ DOMAIN player_mapping = DOMAIN player_object_mapping
    /\ \A k \in DOMAIN player_mapping :
          player_object_mapping[k].display_name = k

\* C29 witness: one user has a claim and the other has given up theirs,
\* while a task is suspended
C29_Witness_AfterUnclaim ==
    /\ last.func = "_unclaim"
    /\ Sends(last.log, "no_longer_playing") # <<>>
    /\ tasks # <<>>
    /\ DOMAIN player_mapping = {"gm (Mook)"}
    /\ DOMAIN player_object_mapping = {"gm (Mook)"}

(***************************************************************************)
(* C30.                                                                    *)
(***************************************************************************)
\* the characters after the initial "." up to the first whitespace or the
\* end of the text
LeadingToken(text) == SubSeq(text, 2, 1 + Run(text, 2, NonSpace))

\* C30: the handler longest_match returns for a text is one of a command
\* that has the leading token of the text among its aliases; a text whose
\* leading token is no alias of any command gets the fallback.
C30_LeadingTokenIsAlias ==
    (probe.done /\ probe.matched.regex # 0) =>
        \E j \in DOMAIN Commands[probe.matched.regex].aliases :
            Commands[probe.matched.regex].aliases[j] = LeadingToken(probe.text)

(***************************************************************************)
(* C31.                                                                    *)
(***************************************************************************)
\* the text with its leading token replaced by the alias a
WithAlias(text, a) == "." \o a \o Drop(text, 1 + Len(LeadingToken(text)))

\* two results of longest_match with the same handler and the same captures
SameInterpretation(m, n) == m.func = n.func /\ m.kwargs = n.kwargs

\* the command c has the alias a
HasAlias(c, a) == \E j \in DOMAIN c.aliases : c.aliases[j] = a

\* C31: when the leading token of a text is an alias of a command, the text
\* with any other alias of that command in its place gets from longest_match
\* the same handler and the same captured named arguments as the text
\* itself (".order +2 @ Weft" and ".order+ +2 @ Weft" are interpreted alike).
C31_AliasesInterchangeable ==
    probe.done =>
        \A k \in DOMAIN Commands :
            HasAlias(Commands[k], LeadingToken(probe.text)) =>
                \A j \in DOMAIN Commands[k].aliases :
                    SameInterpretation(
                        longest_match(
                            WithAlias(probe.text, Commands[k].aliases[j])),
                        probe.matched)

(***************************************************************************)
(* C32.                                                                    *)
(***************************************************************************)
\* C32: a name that is exactly one of the roster's identifiers is
\* canonicalized to itself, also when the roster has another identifier that
\* differs from it only in case.
C32_RosterIdentifierKept ==
    ( /\ probe.applied >= 1
      /\ \E i \in DOMAIN probe.roster : probe.roster[i] = probe.name ) =>
        probe.canon = Ok(probe.name)

(***************************************************************************)
(* C33.                                                                    *)
(***************************************************************************)
\* C33: a step writes the pending-invocation map, the invocations stored in
\* it included, only if it is a step of a task whose dispatch resolved zero
\* targets: a task that resolved a target from an explicit argument, a
\* marker, a claim or a display name leaves every slot as it was.
C33_PendingWrittenByZeroTargets ==
    [][player_last_missing_target_cmd' # player_last_missing_target_cmd
          => ZeroTargets(last')]_vars

(***************************************************************************)
(* C34.                                                                    *)
(***************************************************************************)
\* the dice of a stored roll or of a roll display: the faces and their sum
DiceOf(r) == [rolls_f |-> r.rolls_f, roll_v |-> r.roll_v]

\* the step observed in o started the task of a roll of the user named u
RollBy(o, u) ==
    /\ Dispatched(o) /\ o.func = "_roll"
    /\ o.message.author.display_name = u

\* C34: an amend by a user who has rolled sends one display, with the die
\* faces and the base total that the user's most recent roll displayed; and
\* a step changes the faces or the base total stored for a user, or stores
\* them for a user who had none, only if it starts a roll of that user.
C34_AmendKeepsDice ==
    [][/\ ( /\ Dispatched(last') /\ last'.func = "_amend"
            /\ last'.message.author.display_name \in DOMAIN hist )
          => /\ Len(Sends(last'.log, "roll")) = 1
             /\ DiceOf(Displayed(last')) =
                    DiceOf(hist[last'.message.author.display_name].roll)
       /\ \A u \in DOMAIN player_last_rolls \cup DOMAIN player_last_rolls' :
             \/ RollBy(last', u)
             \/ /\ u \in DOMAIN player_last_rolls
                /\ u \in DOMAIN player_last_rolls'
                /\ DiceOf(player_last_rolls'[u]) = DiceOf(player_last_rolls[u])
      ]_vars

\* C34 witness: a user has amended a roll with a bonus, after another user
\* rolled different dice, and the display has the dice of the user's own roll
C34_Witness_AmendAfterOthersRoll ==
    /\ Dispatched(last) /\ last.func = "_amend"
    /\ last.message.author = Med
    /\ DOMAIN player_last_rolls = {"med", "gm (Mook)"}
    /\ DiceOf(player_last_rolls["med"]) # DiceOf(player_last_rolls["gm (Mook)"])
    /\ player_last_rolls["med"].bonuses # <<>>
    /\ DiceOf(Displayed(last)) = DiceOf(player_last_rolls["med"])
    /\ Displayed(last).total # Displayed(last).roll_v

(***************************************************************************)
(* C35.                                                                    *)
(***************************************************************************)
\* the value of the face written c
FaceValue(c) == IF c = "+" THEN 1 ELSE IF c = "-" THEN 0 - 1 ELSE 0

\* the four faces written in "[f f f f]"
FacesOf(rolls_f) == [i \in 1..4 |-> Ch(rolls_f, 2 * i)]

\* the number a token "+N" or "-N" stands for
Signed(token) ==
    IF Ch(token, 1) = "-" THEN 0 - IntOf(SubSeq(token, 2, Len(token)))
    ELSE IntOf(SubSeq(token, 2, Len(token)))

RECURSIVE SignedSum(_)
SignedSum(tokens) ==
    IF tokens = <<>> THEN 0 ELSE Signed(Head(tokens)) + SignedSum(Tail(tokens))

\* C35: in every reachable state, after any rolls and amends, each stored
\* roll record has four faces written "+", "-" or "0", a base total that is
\* the sum of their values (so between -4 and 4), tokens of the form "+N" or
\* "-N" with a bonus value that is their signed sum, and a running total
\* that is the base total plus the bonus value.
C35_RollRecordConsistent ==
    \A u \in DOMAIN player_last_rolls :
        /\ Len(player_last_rolls[u].rolls_f) = 9
        /\ \A i \in 1..4 :
              FacesOf(player_last_rolls[u].rolls_f)[i] \in {"+", "-", "0"}
        /\ player_last_rolls[u].roll_v =
              FaceValue(FacesOf(player_last_rolls[u].rolls_f)[1])
                + FaceValue(FacesOf(player_last_rolls[u].rolls_f)[2])
                + FaceValue(FacesOf(player_last_rolls[u].rolls_f)[3])
                + FaceValue(FacesOf(player_last_rolls[u].rolls_f)[4])
        /\ player_last_rolls[u].roll_v \in (0 - 4)..4
        /\ \A i \in DOMAIN player_last_rolls[u].bonuses :
              /\ Ch(player_last_rolls[u].bonuses[i], 1) \in {"+", "-"}
              /\ Len(player_last_rolls[u].bonuses[i]) >= 2
        /\ player_last_rolls[u].bonus_v =
              SignedSum(player_last_rolls[u].bonuses)
        /\ player_last_rolls[u].total =
              player_last_rolls[u].roll_v + player_last_rolls[u].bonus_v

\* C35 witness: a roll with a negative and a positive token and a negative
\* base total is stored, and its user has amended it since
C35_Witness_NegativeBonusAmended ==
    /\ Dispatched(last) /\ last.func = "_amend"
    /\ Sends(last.log, "roll") # <<>>
    /\ last.message.author.display_name \in DOMAIN player_last_rolls
    /\ player_last_rolls[last.message.author.display_name] =
           [rolls_f |-> "[- - 0 -]", roll_v |-> 0 - 3,
            bonuses |-> <<"-2", "+1">>, bonus_v |-> 0 - 1, total |-> 0 - 4]

(***************************************************************************)
(* C36.                                                                    *)
(***************************************************************************)
\* C36: for every OrderView (order, pre-start entities and deferred list
\* empty or not, current null or an index into the order) and whatever the
\* users have claimed, pretty_print_order raises nothing and returns a text
\* that is not empty.
C36_OrderAlwaysRendered ==
    probe.shown =>
        /\ probe.rendered.exc = None
        /\ probe.rendered.val # ""

====
